---- MODULE Spec2Model ----
(***************************************************************************)
(* Shoe inventory manager (src/inventory.py): the Shoe record, the         *)
(* InventoryManager store with its load / save-with-backup round trip,     *)
(* and the interactive add, restock and valuation operations.              *)
(*                                                                         *)
(* Text is a sequence of one-character strings, so that strip, split,      *)
(* upper, int(), float() and the formatting done on save are computed      *)
(* rather than assumed.  A cost is held in hundredths (the texts fed to    *)
(* the model carry at most two decimals, for which Python's float          *)
(* parse / repr round trip is exact).  An inventory file that exists is    *)
(* readable; writes may fail.                                              *)
(***************************************************************************)
EXTENDS Integers, Sequences, FiniteSets, TLC

(* ------------------------------ bounds --------------------------------- *)
\* most records the store may hold (guards capture_shoes)
MaxShoes == 2
\* largest quantity a restock may reach
MaxQty == 12
\* most data lines in a file handed to the direct load / save calls
MaxFileLines == 2
\* most failed writes (backup or primary) in one run
MaxFaults == 1
\* most direct load / save calls in one run
MaxCalls == 3

(* ------------------------------- text ---------------------------------- *)
Digits == <<"0", "1", "2", "3", "4", "5", "6", "7", "8", "9">>
LowerCase == <<"a", "b", "c", "d", "e", "f", "g", "h", "i", "j", "k", "l", "m",
               "n", "o", "p", "q", "r", "s", "t", "u", "v", "w", "x", "y", "z">>
UpperCase == <<"A", "B", "C", "D", "E", "F", "G", "H", "I", "J", "K", "L", "M",
               "N", "O", "P", "Q", "R", "S", "T", "U", "V", "W", "X", "Y", "Z">>
Whitespace == {" ", "\t", "\r", "\n"}

Range(s) == {s[i] : i \in 1..Len(s)}
IsDigit(c) == c \in Range(Digits)
DigitVal(c) == CHOOSE d \in 0..9 : Digits[d + 1] = c
Digit(d) == Digits[d + 1]

\* str.strip()
RECURSIVE lstrip(_)
lstrip(s) == IF s # <<>> /\ Head(s) \in Whitespace THEN lstrip(Tail(s)) ELSE s
RECURSIVE rstrip(_)
rstrip(s) ==
    IF s # <<>> /\ s[Len(s)] \in Whitespace THEN rstrip(SubSeq(s, 1, Len(s) - 1)) ELSE s
strip(s) == rstrip(lstrip(s))

\* str.upper() / str.lower()
upperChar(c) ==
    IF c \in Range(LowerCase)
    THEN UpperCase[CHOOSE i \in 1..26 : LowerCase[i] = c] ELSE c
lowerChar(c) ==
    IF c \in Range(UpperCase)
    THEN LowerCase[CHOOSE i \in 1..26 : UpperCase[i] = c] ELSE c
upper(s) == [i \in 1..Len(s) |-> upperChar(s[i])]
lower(s) == [i \in 1..Len(s) |-> lowerChar(s[i])]

\* position of the first c in s (s holds one)
Find(s, c) == CHOOSE k \in 1..Len(s) : s[k] = c /\ \A j \in 1..(k - 1) : s[j] # c
Before(s, i) == SubSeq(s, 1, i - 1)
After(s, i) == SubSeq(s, i + 1, Len(s))

\* str.split(",")
RECURSIVE split(_)
SplitAt(s, i) == <<Before(s, i)>> \o split(After(s, i))
split(s) == IF "," \notin Range(s) THEN <<s>> ELSE SplitAt(s, Find(s, ","))

\* ",".join(fields)
RECURSIVE join(_)
join(fs) ==
    IF Len(fs) = 0 THEN <<>>
    ELSE IF Len(fs) = 1 THEN fs[1]
    ELSE fs[1] \o <<",">> \o join(Tail(fs))

RECURSIVE NatOf(_)
NatOf(s) ==
    IF s = <<>> THEN 0
    ELSE 10 * NatOf(SubSeq(s, 1, Len(s) - 1)) + DigitVal(s[Len(s)])
AllDigits(s) == \A i \in 1..Len(s) : IsDigit(s[i])

ValueError == [ok |-> FALSE, val |-> 0]
Parsed(v) == [ok |-> TRUE, val |-> v]

\* a numeric text without its sign, and the value with the sign applied
Unsigned(t) == IF t # <<>> /\ t[1] \in {"-", "+"} THEN Tail(t) ELSE t
Signed(t, n) == IF t[1] = "-" THEN 0 - n ELSE n

\* int(text): surrounding whitespace and one sign are accepted, then digits only
IntDigits(t, body) ==
    IF body # <<>> /\ AllDigits(body) THEN Parsed(Signed(t, NatOf(body))) ELSE ValueError
IntOf(t) == IntDigits(t, Unsigned(t))
int(s) == IntOf(strip(s))

\* float('nan') : the one float that is no number. Costs are integers
\* (hundredths); NaN is the least integer, which no numeric text parses to
NaN == 0 - 2147483647
\* a < b and a >= b on floats: every comparison with NaN is False
FloatLess(a, b) == a # NaN /\ b # NaN /\ a < b
FloatGeq(a, b) == a # NaN /\ b # NaN /\ a >= b

\* float(text), in hundredths: sign, digits, optional "." and digits,
\* or the letters of "nan" in either case
IntPart(body) == IF "." \in Range(body) THEN Before(body, Find(body, ".")) ELSE body
FracPart(body) == IF "." \in Range(body) THEN After(body, Find(body, ".")) ELSE <<>>
Hundredths(fp) ==
    IF Len(fp) = 0 THEN 0
    ELSE IF Len(fp) = 1 THEN 10 * NatOf(fp)
    ELSE NatOf(SubSeq(fp, 1, 2))
FloatParts(t, ip, fp) ==
    IF AllDigits(ip) /\ AllDigits(fp) /\ Len(ip) + Len(fp) > 0
    THEN Parsed(Signed(t, 100 * NatOf(ip) + Hundredths(fp)))
    ELSE ValueError
FloatDigits(t, body) ==
    IF lower(body) = <<"n", "a", "n">> THEN Parsed(NaN)
    ELSE FloatParts(t, IntPart(body), FracPart(body))
FloatOf(t) == FloatDigits(t, Unsigned(t))
float(s) == FloatOf(strip(s))

\* str(n) for an integer
RECURSIVE NatStr(_)
NatStr(n) == IF n < 10 THEN <<Digit(n)>> ELSE NatStr(n \div 10) \o <<Digit(n % 10)>>
IntStr(n) == IF n < 0 THEN <<"-">> \o NatStr(0 - n) ELSE NatStr(n)

\* the decimals of repr(float): trailing zeros dropped, one digit at least
Decimals(c) ==
    IF c = 0 THEN <<"0">>
    ELSE IF c % 10 = 0 THEN <<Digit(c \div 10)>>
    ELSE <<Digit(c \div 10), Digit(c % 10)>>

\* FloatStr with the decimals dropped, as f"{cost:.0f}" would write it
FloatStr_whole(h) == IF h = NaN THEN <<"n", "a", "n">> ELSE NatStr(h \div 100)

\* f"{cost}" : repr of the float
FloatStr(h) ==
    IF h = NaN THEN <<"n", "a", "n">>
    ELSE NatStr(h \div 100) \o <<".">> \o Decimals(h % 100)

\* '${:.2f}'.format(v)
Currency(h) ==
    IF h = NaN THEN <<"$", "n", "a", "n">>
    ELSE <<"$">> \o NatStr(h \div 100) \o <<".">> \o <<Digit((h % 100) \div 10), Digit(h % 10)>>

\* code points of the characters a currency text is made of
CodePoint(c) ==
    IF c = "$" THEN 36 ELSE IF c = "." THEN 46
    ELSE IF c = "a" THEN 97 ELSE IF c = "n" THEN 110 ELSE 48 + DigitVal(c)

\* Python's str < str : lexicographic by code point
RECURSIVE StrLess(_, _)
StrLess(a, b) ==
    IF b = <<>> THEN FALSE
    ELSE IF a = <<>> THEN TRUE
    ELSE IF Head(a) = Head(b) THEN StrLess(Tail(a), Tail(b))
    ELSE CodePoint(Head(a)) < CodePoint(Head(b))

(* ------------------------------- Shoe ---------------------------------- *)
NoShoe == [country |-> <<>>, code |-> <<>>, product |-> <<>>, cost |-> 0, quantity |-> 0]

\* Shoe.__init__ once cost and quantity went through float() and int();
\* ok = FALSE stands for the ValueError it raises
ShoeOf(country, code, product, c, q) ==
    IF ~c.ok \/ FloatLess(c.val, 0) THEN [ok |-> FALSE, val |-> NoShoe]
    ELSE IF ~q.ok \/ q.val < 0 THEN [ok |-> FALSE, val |-> NoShoe]
    ELSE [ok |-> TRUE,
          val |-> [country |-> strip(country), code |-> strip(code),
                   product |-> strip(product), cost |-> c.val, quantity |-> q.val]]

\* Shoe.__init__ : text fields trimmed, cost and quantity parsed and checked
Shoe(country, code, product, cost, quantity) ==
    ShoeOf(country, code, product, float(cost), int(quantity))

get_quantity(shoe) == shoe.quantity

\* Shoe.update_quantity
update_quantity(shoe, new_quantity) ==
    IF new_quantity < 0 THEN [ok |-> FALSE, val |-> shoe]
    ELSE [ok |-> TRUE, val |-> [shoe EXCEPT !.quantity = new_quantity]]

\* to_dict()["Value"] : cost * quantity (hundredths); nan times anything is nan
Value(shoe) == IF shoe.cost = NaN THEN NaN ELSE shoe.cost * shoe.quantity

(* ------------------------------- files --------------------------------- *)
\* a file is absent, or a sequence of lines (each a text without its newline)
NoFile == [exists |-> FALSE, lines |-> <<>>]
FileOf(ls) == [exists |-> TRUE, lines |-> ls]

DEFAULT_HEADER ==
    <<"C", "o", "u", "n", "t", "r", "y", ",", "C", "o", "d", "e", ",",
      "P", "r", "o", "d", "u", "c", "t", ",", "C", "o", "s", "t", ",",
      "Q", "u", "a", "n", "t", "i", "t", "y">>

\* one round of the loop of read_shoes_data on a stripped line: the records it
\* appends (none when the line is blank, of the wrong field count, or when
\* Shoe raises ValueError)
ParseShoe(shoe) == IF shoe.ok THEN <<shoe.val>> ELSE <<>>
ParseParts(parts) ==
    IF Len(parts) # 5 THEN <<>>
    ELSE ParseShoe(Shoe(parts[1], parts[2], parts[3], parts[4], parts[5]))
ParseLine(line) == IF line = <<>> THEN <<>> ELSE ParseParts(split(line))

\* LoadLines with "break" in place of "continue" on a line that is not blank
\* and yields no record
RECURSIVE LoadLines_break(_, _)
LoadLines_break(lines, acc) ==
    IF lines = <<>> THEN acc
    ELSE IF strip(Head(lines)) # <<>> /\ ParseLine(strip(Head(lines))) = <<>> THEN acc
    ELSE LoadLines_break(Tail(lines), acc \o ParseLine(strip(Head(lines))))

\* the for loop of read_shoes_data over lines[1:], acc being self.shoes_list
RECURSIVE LoadLines(_, _)
LoadLines(lines, acc) ==
    IF lines = <<>> THEN acc
    ELSE LoadLines(Tail(lines), acc \o ParseLine(strip(Head(lines))))

\* the end of read_shoes_data: "if self.shoes_list: return True"
ReadResult(loaded, hdr) ==
    [shoes |-> loaded, header |-> hdr, ret |-> loaded # <<>>,
     path |-> IF loaded # <<>> THEN "loaded" ELSE "no_valid"]

\* read_shoes_data with the list cleared only once the file is known to exist
read_shoes_data_keep(old, f, hdr) ==
    IF ~f.exists
    THEN [shoes |-> old, header |-> hdr, ret |-> FALSE, path |-> "missing"]
    ELSE IF f.lines = <<>>
    THEN [shoes |-> <<>>, header |-> hdr, ret |-> FALSE, path |-> "empty_file"]
    ELSE ReadResult(LoadLines(Tail(f.lines), <<>>), strip(f.lines[1]))

\* read_shoes_data as a function of the list and header held so far and of
\* the file: the list is cleared first, whatever follows
read_shoes_data(old, f, hdr) ==
    IF ~f.exists
    THEN [shoes |-> <<>>, header |-> hdr, ret |-> FALSE, path |-> "missing"]
    ELSE IF f.lines = <<>>
    THEN [shoes |-> <<>>, header |-> hdr, ret |-> FALSE, path |-> "empty_file"]
    ELSE ReadResult(LoadLines(Tail(f.lines), <<>>), strip(f.lines[1]))

\* the line save_shoes_data writes for one shoe
ShoeLine(shoe) ==
    join(<<shoe.country, shoe.code, shoe.product, FloatStr(shoe.cost), IntStr(shoe.quantity)>>)

\* outcomes of the two writes of save_shoes_data: the write goes through, the
\* open fails (target untouched), or the open truncates and the write fails
IoOutcomes == {"ok", "open_fail", "write_fail"}
Failed(io) == IF io = "ok" THEN 0 ELSE 1

\* the backup file after the copy attempted before the rewrite
BackupAfter(f, bk, bkio) ==
    IF ~f.exists THEN bk
    ELSE IF bkio = "ok" THEN FileOf(f.lines)
    ELSE IF bkio = "open_fail" THEN bk
    ELSE FileOf(<<>>)

\* FileAfter with the file opened in mode 'a': the lines are written after
\* those the file holds
FileAfter_append(shoes, hdr, f, wrio) ==
    IF wrio = "ok"
    THEN FileOf(f.lines \o <<hdr>> \o [i \in 1..Len(shoes) |-> ShoeLine(shoes[i])])
    ELSE IF wrio = "open_fail" THEN f
    ELSE FileOf(<<>>)

\* the primary file after the rewrite
FileAfter(shoes, hdr, f, wrio) ==
    IF wrio = "ok" THEN FileOf(<<hdr>> \o [i \in 1..Len(shoes) |-> ShoeLine(shoes[i])])
    ELSE IF wrio = "open_fail" THEN f
    ELSE FileOf(<<>>)

\* save_shoes_data with the backup copy made after the rewrite
save_shoes_data_late(shoes, hdr, f, bk, bkio, wrio) ==
    [file |-> FileAfter(shoes, hdr, f, wrio),
     backup |-> BackupAfter(FileAfter(shoes, hdr, f, wrio), bk, bkio),
     ret |-> (wrio = "ok")]

\* save_shoes_data: backup copy first (failure only logged), then the rewrite
save_shoes_data(shoes, hdr, f, bk, bkio, wrio) ==
    [file |-> FileAfter(shoes, hdr, f, wrio),
     backup |-> BackupAfter(f, bk, bkio),
     ret |-> (wrio = "ok")]

(* -------------------- texts the model feeds the program ----------------- *)
\* "US,A1,Runner,50.00,3"
L_A1 ==
    <<"U", "S", ",", "A", "1", ",", "R", "u", "n", "n", "e", "r", ",", "5", "0", ".", "0", "0", ",", "3">>
\* "CN,B2,Walker,30.00,3"
L_B2 ==
    <<"C", "N", ",", "B", "2", ",", "W", "a", "l", "k", "e", "r", ",", "3", "0", ".", "0", "0", ",", "3">>
\* " FR , a1 ,Clog, 9.5 , 10 "
L_a1 ==
    <<" ", "F", "R", " ", ",", " ", "a", "1", " ", ",", "C", "l", "o", "g", ",", " ", "9", ".", "5", " ", ",", " ", "1", "0", " ">>
\* "US,C3,Boot,-10,5"
L_neg ==
    <<"U", "S", ",", "C", "3", ",", "B", "o", "o", "t", ",", "-", "1", "0", ",", "5">>
\* "UK,D4,Heel,9,x"
L_qty ==
    <<"U", "K", ",", "D", "4", ",", "H", "e", "e", "l", ",", "9", ",", "x">>
\* "UK,D4,Heel,9,-2"
L_nq ==
    <<"U", "K", ",", "D", "4", ",", "H", "e", "e", "l", ",", "9", ",", "-", "2">>
\* "UK,D4,Heel"
L_cnt ==
    <<"U", "K", ",", "D", "4", ",", "H", "e", "e", "l">>
\* "  "
L_blank ==
    <<" ", " ">>
\* " id;cost "
H_alt ==
    <<" ", "i", "d", ";", "c", "o", "s", "t", " ">>
\* "yes"
T_yes ==
    <<"y", "e", "s">>
\* "YES"
T_YES ==
    <<"Y", "E", "S">>
\* "no"
T_no ==
    <<"n", "o">>
\* "UK"
T_UK ==
    <<"U", "K">>
\* " "
T_sp ==
    <<" ">>
\* "a1"
T_a1 ==
    <<"a", "1">>
\* "Z9"
T_Z9 ==
    <<"Z", "9">>
\* "Mule"
T_Mule ==
    <<"M", "u", "l", "e">>
\* "x"
T_x ==
    <<"x">>
\* "-1"
T_m1 ==
    <<"-", "1">>
\* "-2"
T_m2 ==
    <<"-", "2">>
\* "0"
T_0 ==
    <<"0">>
\* "1"
T_1 ==
    <<"1">>
\* "2"
T_2 ==
    <<"2">>
\* "3"
T_3 ==
    <<"3">>
\* "7"
T_7 ==
    <<"7">>
\* "30.5"
T_30_5 ==
    <<"3", "0", ".", "5">>
\* "3.5"
T_3_5 ==
    <<"3", ".", "5">>
\* "nan"
T_nan ==
    <<"n", "a", "n">>

\* data lines an inventory file may hold
LineSet == {L_A1, L_B2, L_a1, L_neg, L_qty, L_nq, L_cnt, L_blank}
HeaderSet == {DEFAULT_HEADER, H_alt}

RECURSIVE SeqsUpTo(_, _)
Extend(shorter, S) == shorter \cup {Append(q, x) : q \in shorter, x \in S}
SeqsUpTo(S, n) == IF n = 0 THEN {<<>>} ELSE Extend(SeqsUpTo(S, n - 1), S)

\* files the direct load / save calls start from
ApiFiles ==
    {NoFile, FileOf(<<>>)}
        \cup {FileOf(<<h>> \o ls) : h \in HeaderSet, ls \in SeqsUpTo(LineSet, MaxFileLines)}

\* files the interactive program starts from
MainFiles ==
    {NoFile, FileOf(<<>>),
     FileOf(<<DEFAULT_HEADER, L_A1, L_B2>>),
     FileOf(<<H_alt, L_A1, L_neg, L_a1>>),
     FileOf(<<DEFAULT_HEADER, L_blank, L_A1, L_cnt>>),
     FileOf(<<DEFAULT_HEADER, L_qty>>)}

\* what the operator may type at each prompt
CountryInputs == {<<>>, T_sp, T_UK}
CodeInputs == {<<>>, T_a1, T_Z9}
ProductInputs == {<<>>, T_Mule}
CostInputs == {T_x, T_m1, T_30_5, T_nan}
QuantityInputs == {T_3_5, T_m1, T_3}
IndexInputs == {T_x, T_m1, T_m2, T_0, T_1, T_2, T_3}
ChoiceInputs == {T_yes, T_YES, T_no, <<>>}
AddInputs == {T_x, T_m1, T_0, T_7}

(* ------------------------------- state --------------------------------- *)
VARIABLES
    shoes_list,   \* InventoryManager.shoes_list
    header,       \* InventoryManager.header
    file,         \* content of INVENTORY_FILE
    backup,       \* content of BACKUP_FILE
    pc,           \* the prompt the program waits at ("menu" between operations)
    cap,          \* locals of capture_shoes: country, code, product, cost, quantity
    lowest,       \* re_stock: lowest_quantity_shoes, as positions in shoes_list
    selected,     \* re_stock: selected_shoe, as a position in shoes_list (0: none)
    entered,      \* the text typed at the last prompt of the operation
    op,           \* the operation running or last run
    ret,          \* its return value ("running" until it returns)
    path,         \* the return statement it left through
    shoes0,       \* shoes_list when the operation started
    file0,        \* the primary file when the operation started
    backup0,      \* the backup file when the operation started
    saved,        \* the save_shoes_data call made by the operation, if any
    added,        \* re_stock: add_quantity
    display,      \* value_per_item: the rows in the order they are printed
    faults,       \* failed writes so far
    highest,      \* highest_qty: the record returned, as a position in shoes_list (0: none)
    skipped,      \* the lines the last read_shoes_data left out of the store
    hist          \* direct calls made so far (load / save round trips)

vars == <<shoes_list, header, file, backup, pc, cap, lowest, selected, entered, op, ret,
          path, shoes0, file0, backup0, saved, added, display, faults, highest, skipped, hist>>

NoCap == [country |-> <<>>, code |-> <<>>, product |-> <<>>, cost |-> <<>>, quantity |-> <<>>]
NoSave == [done |-> FALSE, ret |-> FALSE, bkio |-> "ok", wrio |-> "ok", existed |-> FALSE]

\* InventoryManager.__init__, with the files found on disk
Construct(f) ==
    /\ shoes_list = <<>>
    /\ header = DEFAULT_HEADER
    /\ file = f
    /\ backup = NoFile
    /\ cap = NoCap
    /\ lowest = <<>>
    /\ selected = 0
    /\ entered = <<>>
    /\ op = "none"
    /\ ret = "None"
    /\ path = "none"
    /\ shoes0 = <<>>
    /\ file0 = f
    /\ backup0 = NoFile
    /\ saved = NoSave
    /\ added = 0
    /\ display = <<>>
    /\ faults = 0
    /\ highest = 0
    /\ skipped = <<>>
    /\ hist = <<>>

Init == \E f \in MainFiles : Construct(f) /\ pc = "start"

(* ------------------------------ helpers -------------------------------- *)
\* what the store and the files are when an operation starts
Snapshot(name) ==
    /\ op' = name
    /\ shoes0' = shoes_list
    /\ file0' = file
    /\ backup0' = backup

\* an operation is entered from the menu
Begin(name) ==
    /\ Snapshot(name)
    /\ saved' = NoSave
    /\ added' = 0
    /\ display' = <<>>
    /\ entered' = <<>>
    /\ cap' = NoCap
    /\ highest' = 0

Return(r, p) == pc' = "menu" /\ ret' = r /\ path' = p
WaitAt(p) == pc' = p /\ ret' = "running" /\ path' = "running"
Bool(b) == IF b THEN "True" ELSE "False"

\* the operation goes on from one prompt to the next
Step == UNCHANGED <<op, shoes0, file0, backup0, display, highest, hist>>

\* "if self.save_shoes_data(): ... return True  else: ... return False"
DoSaveWith(s, bkio, wrio, done) ==
    /\ skipped' = skipped
    /\ faults + Failed(bkio) + Failed(wrio) <= MaxFaults
    /\ faults' = faults + Failed(bkio) + Failed(wrio)
    /\ file' = s.file
    /\ backup' = s.backup
    /\ saved' = [done |-> TRUE, ret |-> s.ret, bkio |-> bkio, wrio |-> wrio,
                 existed |-> file.exists]
    /\ Return(Bool(s.ret), IF s.ret THEN done ELSE "save_failed")
DoSave(shoes, bkio, wrio, done) ==
    DoSaveWith(save_shoes_data(shoes, header, file, backup, bkio, wrio), bkio, wrio, done)

(* --------------------------- read_shoes_data --------------------------- *)
\* the lines of the file that the loop of read_shoes_data passes over: the
\* blank ones, those of the wrong field count and those Shoe refuses
SkippedLines(f) ==
    IF ~f.exists \/ f.lines = <<>> THEN <<>>
    ELSE SelectSeq(Tail(f.lines), LAMBDA line : ParseLine(strip(line)) = <<>>)

DoReadWith(r) ==
    /\ skipped' = SkippedLines(file)
    /\ shoes_list' = r.shoes
    /\ header' = r.header
    /\ Return(Bool(r.ret), r.path)
DoRead == DoReadWith(read_shoes_data(shoes_list, file, header))

\* main(): the load at startup, made only when the file exists
Startup ==
    /\ pc = "start"
    /\ IF file.exists
       THEN Begin("read_shoes_data") /\ DoRead
       ELSE /\ pc' = "menu"
            /\ UNCHANGED <<shoes_list, header, op, ret, path, shoes0, file0, backup0,
                           saved, added, display, entered, cap, highest, skipped>>
    /\ UNCHANGED <<file, backup, lowest, selected, faults, hist>>

\* menu choice 1
ReadShoesData ==
    /\ pc = "menu"
    /\ Begin("read_shoes_data")
    /\ DoRead
    /\ lowest' = <<>>
    /\ selected' = 0
    /\ UNCHANGED <<file, backup, faults, hist>>

(* ---------------------------- capture_shoes ---------------------------- *)
\* DuplicateCode comparing the codes as they are, without upper()
DuplicateCode_exact(shoes, code) ==
    \E i \in 1..Len(shoes) : shoes[i].code = code

\* any(shoe.code.upper() == code.upper() for shoe in self.shoes_list)
DuplicateCode(shoes, code) ==
    \E i \in 1..Len(shoes) : upper(shoes[i].code) = upper(code)

\* menu choice 2, up to the country prompt
CaptureStart ==
    /\ pc = "menu"
    /\ Len(shoes_list) < MaxShoes
    /\ Begin("capture_shoes")
    /\ WaitAt("cap_country")
    /\ lowest' = <<>>
    /\ selected' = 0
    /\ UNCHANGED <<shoes_list, header, file, backup, faults, skipped, hist>>

\* input("Enter the country: ").strip()
CountryGiven(country) ==
    IF country = <<>>
    THEN Return("False", "no_country") /\ cap' = cap
    ELSE WaitAt("cap_code") /\ cap' = [cap EXCEPT !.country = country]
CaptureCountry(inp) ==
    /\ pc = "cap_country"
    /\ entered' = inp
    /\ CountryGiven(strip(inp))
    /\ Step
    /\ UNCHANGED <<shoes_list, header, file, backup, lowest, selected, saved, added, faults, skipped>>

\* input("Enter the code: ").strip() and the duplicate check
CodeGiven(code) ==
    IF code = <<>>
    THEN Return("False", "no_code") /\ cap' = cap
    ELSE IF DuplicateCode(shoes_list, code)
    THEN Return("False", "duplicate") /\ cap' = cap
    ELSE WaitAt("cap_product") /\ cap' = [cap EXCEPT !.code = code]
CaptureCode(inp) ==
    /\ pc = "cap_code"
    /\ entered' = inp
    /\ CodeGiven(strip(inp))
    /\ Step
    /\ UNCHANGED <<shoes_list, header, file, backup, lowest, selected, saved, added, faults, skipped>>

\* input("Enter the product name: ").strip()
ProductGiven(product) ==
    IF product = <<>>
    THEN Return("False", "no_product") /\ cap' = cap
    ELSE WaitAt("cap_cost") /\ cap' = [cap EXCEPT !.product = product]
CaptureProduct(inp) ==
    /\ pc = "cap_product"
    /\ entered' = inp
    /\ ProductGiven(strip(inp))
    /\ Step
    /\ UNCHANGED <<shoes_list, header, file, backup, lowest, selected, saved, added, faults, skipped>>

\* one round of the cost loop
CostGiven(cost, cost_value) ==
    IF ~cost_value.ok \/ FloatLess(cost_value.val, 0)
    THEN WaitAt("cap_cost") /\ cap' = cap
    ELSE WaitAt("cap_quantity") /\ cap' = [cap EXCEPT !.cost = cost]
CaptureCost(inp) ==
    /\ pc = "cap_cost"
    /\ entered' = inp
    /\ CostGiven(strip(inp), float(strip(inp)))
    /\ Step
    /\ UNCHANGED <<shoes_list, header, file, backup, lowest, selected, saved, added, faults, skipped>>

\* AppendShoe taking the new record back out of the list when the save fails
AppendShoe_rollback(new_shoe, bkio, wrio) ==
    IF ~new_shoe.ok
    THEN /\ Return("False", "error")
         /\ UNCHANGED <<shoes_list, file, backup, saved, faults, skipped>>
    ELSE /\ shoes_list' = IF wrio = "ok" THEN Append(shoes_list, new_shoe.val) ELSE shoes_list
         /\ DoSave(Append(shoes_list, new_shoe.val), bkio, wrio, "added")

\* "new_shoe = Shoe(...); self.shoes_list.append(new_shoe)" and the save
AppendShoe(new_shoe, bkio, wrio) ==
    IF ~new_shoe.ok
    THEN /\ Return("False", "error")
         /\ UNCHANGED <<shoes_list, file, backup, saved, faults, skipped>>
    ELSE /\ shoes_list' = Append(shoes_list, new_shoe.val)
         /\ DoSave(shoes_list', bkio, wrio, "added")

\* one round of the quantity loop; on a valid quantity the shoe is built,
\* appended and the store saved
QuantityGiven(quantity, qty_value, bkio, wrio) ==
    IF ~qty_value.ok \/ qty_value.val < 0
    THEN /\ WaitAt("cap_quantity")
         /\ UNCHANGED <<cap, shoes_list, file, backup, saved, faults, skipped>>
    ELSE /\ cap' = [cap EXCEPT !.quantity = quantity]
         /\ AppendShoe(Shoe(cap.country, cap.code, cap.product, cap.cost, quantity), bkio, wrio)
CaptureQuantity(inp, bkio, wrio) ==
    /\ pc = "cap_quantity"
    /\ entered' = inp
    /\ QuantityGiven(strip(inp), int(strip(inp)), bkio, wrio)
    /\ Step
    /\ UNCHANGED <<header, lowest, selected, added>>

(* ------------------------------ re_stock ------------------------------- *)
\* MinQuantity with max() in place of min()
MinQuantity_max(shoes) ==
    CHOOSE m \in {get_quantity(shoes[i]) : i \in 1..Len(shoes)} :
        \A i \in 1..Len(shoes) : m >= get_quantity(shoes[i])

\* min(shoe.get_quantity() for shoe in shoes)
MinQuantity(shoes) ==
    CHOOSE m \in {get_quantity(shoes[i]) : i \in 1..Len(shoes)} :
        \A i \in 1..Len(shoes) : m <= get_quantity(shoes[i])

\* [shoe for shoe in shoes if shoe.get_quantity() == min_quantity], as positions
RECURSIVE PositionsFrom(_, _, _)
PositionsFrom(shoes, i, m) ==
    IF i > Len(shoes) THEN <<>>
    ELSE IF get_quantity(shoes[i]) = m THEN <<i>> \o PositionsFrom(shoes, i + 1, m)
    ELSE PositionsFrom(shoes, i + 1, m)
LowestQuantityShoes(shoes) == PositionsFrom(shoes, 1, MinQuantity(shoes))

\* "if len(lowest_quantity_shoes) > 1: ... else: selected_shoe = ...[0]"
LowestGiven(lowest_quantity_shoes) ==
    /\ lowest' = lowest_quantity_shoes
    /\ IF Len(lowest_quantity_shoes) > 1
       THEN WaitAt("rs_index") /\ selected' = 0
       ELSE WaitAt("rs_choice") /\ selected' = lowest_quantity_shoes[1]

\* menu choice 4, up to its first prompt
ReStockStart ==
    /\ pc = "menu"
    /\ Begin("re_stock")
    /\ IF shoes_list = <<>>
       THEN Return("False", "empty") /\ lowest' = <<>> /\ selected' = 0
       ELSE LowestGiven(LowestQuantityShoes(shoes_list))
    /\ UNCHANGED <<shoes_list, header, file, backup, faults, skipped, hist>>

\* IndexGiven with the range test alone: -1 is not tested for first and any
\* index out of range ends the operation
IndexGiven_abort(idx) ==
    IF ~idx.ok THEN WaitAt("rs_index") /\ selected' = selected
    ELSE IF 0 <= idx.val /\ idx.val < Len(lowest)
    THEN WaitAt("rs_choice") /\ selected' = lowest[idx.val + 1]
    ELSE Return("False", "cancelled") /\ selected' = selected

\* IndexGiven without the test for -1, the index being used as Python would:
\* lowest_quantity_shoes[-1] is the last of the tied records
IndexGiven_last(idx) ==
    IF ~idx.ok THEN WaitAt("rs_index") /\ selected' = selected
    ELSE IF idx.val = 0 - 1 THEN WaitAt("rs_choice") /\ selected' = lowest[Len(lowest)]
    ELSE IF 0 <= idx.val /\ idx.val < Len(lowest)
    THEN WaitAt("rs_choice") /\ selected' = lowest[idx.val + 1]
    ELSE WaitAt("rs_index") /\ selected' = selected

\* one round of the index loop, idx being int(input(...))
IndexGiven(idx) ==
    IF ~idx.ok THEN WaitAt("rs_index") /\ selected' = selected
    ELSE IF idx.val = 0 - 1 THEN Return("False", "cancelled") /\ selected' = selected
    ELSE IF 0 <= idx.val /\ idx.val < Len(lowest)
    THEN WaitAt("rs_choice") /\ selected' = lowest[idx.val + 1]
    ELSE WaitAt("rs_index") /\ selected' = selected
ReStockIndex(inp) ==
    /\ pc = "rs_index"
    /\ entered' = inp
    /\ IndexGiven(int(inp))
    /\ Step
    /\ UNCHANGED <<shoes_list, header, file, backup, cap, lowest, saved, added, faults, skipped>>

\* input("Do you want to add more quantity to this shoe? (yes/no): ").lower()
ReStockChoice(inp) ==
    /\ pc = "rs_choice"
    /\ entered' = inp
    /\ IF lower(inp) # T_yes THEN Return("False", "declined") ELSE WaitAt("rs_quantity")
    /\ Step
    /\ UNCHANGED <<shoes_list, header, file, backup, cap, lowest, selected, saved, added,
                   faults, skipped>>

\* AddGiven with the old quantity put back when the save fails
AddGiven_rollback(add_quantity, current_qty, bkio, wrio) ==
    IF ~add_quantity.ok \/ add_quantity.val < 0
    THEN /\ WaitAt("rs_quantity")
         /\ UNCHANGED <<shoes_list, file, backup, saved, added, faults, skipped>>
    ELSE /\ current_qty + add_quantity.val <= MaxQty
         /\ added' = add_quantity.val
         /\ shoes_list' =
                IF wrio # "ok" THEN shoes_list
                ELSE [shoes_list EXCEPT ![selected] =
                         update_quantity(shoes_list[selected], current_qty + add_quantity.val).val]
         /\ DoSave(shoes_list', bkio, wrio, "restocked")

\* one round of the quantity loop; on a valid amount the shoe is updated and
\* the store saved
AddGiven(add_quantity, current_qty, bkio, wrio) ==
    IF ~add_quantity.ok \/ add_quantity.val < 0
    THEN /\ WaitAt("rs_quantity")
         /\ UNCHANGED <<shoes_list, file, backup, saved, added, faults, skipped>>
    ELSE /\ current_qty + add_quantity.val <= MaxQty
         /\ added' = add_quantity.val
         /\ shoes_list' =
                [shoes_list EXCEPT ![selected] =
                    update_quantity(shoes_list[selected], current_qty + add_quantity.val).val]
         /\ DoSave(shoes_list', bkio, wrio, "restocked")
ReStockQuantity(inp, bkio, wrio) ==
    /\ pc = "rs_quantity"
    /\ entered' = inp
    /\ AddGiven(int(inp), get_quantity(shoes_list[selected]), bkio, wrio)
    /\ Step
    /\ UNCHANGED <<header, cap, lowest, selected>>

(* --------------------------- value_per_item ---------------------------- *)
\* the text of the Value column of a row
ValueText(shoe) == Currency(Value(shoe))

\* df.sort_values(by='Value', ascending=False), taken after the Value column
\* has been mapped to its currency text: the rows in any order in which no
\* row's text is less than the text of the row after it
SortValues(shoes) ==
    {[i \in 1..Len(shoes) |-> shoes[p[i]]] :
        p \in {q \in Permutations(1..Len(shoes)) :
                 \A i \in 1..(Len(shoes) - 1) :
                     ~StrLess(ValueText(shoes[q[i]]), ValueText(shoes[q[i + 1]]))}}

\* menu choice 6
ValuePerItem ==
    /\ pc = "menu"
    /\ Snapshot("value_per_item")
    /\ saved' = NoSave
    /\ added' = 0
    /\ entered' = <<>>
    /\ cap' = NoCap
    /\ highest' = 0
    /\ IF shoes_list = <<>>
       THEN display' = <<>> /\ Return("None", "empty")
       ELSE display' \in SortValues(shoes_list) /\ Return("None", "displayed")
    /\ lowest' = <<>>
    /\ selected' = 0
    /\ UNCHANGED <<shoes_list, header, file, backup, faults, skipped, hist>>

(* ----------------------------- highest_qty ----------------------------- *)
\* MaxFrom with a later record taking the place of an equal one
RECURSIVE MaxFrom_last(_, _, _)
MaxFrom_last(shoes, i, best) ==
    IF i > Len(shoes) THEN best
    ELSE MaxFrom_last(shoes, i + 1,
                      IF get_quantity(shoes[i]) >= get_quantity(shoes[best]) THEN i ELSE best)

\* max(self.shoes_list, key=lambda x: x.get_quantity()) from position i on,
\* best being the position of the greatest record met so far: max() replaces
\* it only by a record whose key is greater
RECURSIVE MaxFrom(_, _, _)
MaxFrom(shoes, i, best) ==
    IF i > Len(shoes) THEN best
    ELSE MaxFrom(shoes, i + 1,
                 IF get_quantity(shoes[i]) > get_quantity(shoes[best]) THEN i ELSE best)

\* menu choice 7
HighestQty ==
    /\ pc = "menu"
    /\ Snapshot("highest_qty")
    /\ saved' = NoSave
    /\ added' = 0
    /\ entered' = <<>>
    /\ cap' = NoCap
    /\ display' = <<>>
    /\ IF shoes_list = <<>>
       THEN highest' = 0 /\ Return("None", "empty")
       ELSE highest' = MaxFrom(shoes_list, 2, 1) /\ Return("Shoe", "found")
    /\ lowest' = <<>>
    /\ selected' = 0
    /\ UNCHANGED <<shoes_list, header, file, backup, faults, skipped, hist>>

(* --------------------------- the program ------------------------------- *)
Next ==
    \/ Startup
    \/ ReadShoesData
    \/ CaptureStart
    \/ \E inp \in CountryInputs : CaptureCountry(inp)
    \/ \E inp \in CodeInputs : CaptureCode(inp)
    \/ \E inp \in ProductInputs : CaptureProduct(inp)
    \/ \E inp \in CostInputs : CaptureCost(inp)
    \/ \E inp \in QuantityInputs, bkio \in IoOutcomes, wrio \in IoOutcomes :
           CaptureQuantity(inp, bkio, wrio)
    \/ ReStockStart
    \/ \E inp \in IndexInputs : ReStockIndex(inp)
    \/ \E inp \in ChoiceInputs : ReStockChoice(inp)
    \/ \E inp \in AddInputs, bkio \in IoOutcomes, wrio \in IoOutcomes :
           ReStockQuantity(inp, bkio, wrio)
    \/ ValuePerItem
    \/ HighestQty

Spec == Init /\ [][Next]_vars

(* ------------------ direct calls of load and save ---------------------- *)
InitApi == \E f \in ApiFiles : Construct(f) /\ pc = "menu"

\* inventory.read_shoes_data()
ApiLoad ==
    /\ pc = "menu"
    /\ Len(hist) < MaxCalls
    /\ Begin("read_shoes_data")
    /\ DoRead
    /\ hist' = Append(hist, [call |-> "load", file |-> file, ret |-> (ret' = "True"),
                             shoes |-> shoes_list'])
    /\ lowest' = <<>>
    /\ selected' = 0
    /\ UNCHANGED <<file, backup, faults>>

\* inventory.save_shoes_data()
ApiSave(bkio, wrio) ==
    /\ pc = "menu"
    /\ Len(hist) < MaxCalls
    /\ Snapshot("save_shoes_data")
    /\ DoSave(shoes_list, bkio, wrio, "saved")
    /\ hist' = Append(hist, [call |-> "save", file |-> file, ret |-> (ret' = "True"),
                             shoes |-> shoes_list])
    /\ UNCHANGED <<shoes_list, header, cap, lowest, selected, entered, added, display,
                   highest>>

NextApi ==
    \/ ApiLoad
    \/ \E bkio \in IoOutcomes, wrio \in IoOutcomes : ApiSave(bkio, wrio)

SpecApi == InitApi /\ [][NextApi]_vars

(* ======================= properties of the program ===================== *)
Returned(name) == op = name /\ pc = "menu" /\ path \notin {"none", "running"}

\* what a data line of the file is, judged on the line alone
Fields(line) == split(strip(line))
Blank(line) == strip(line) = <<>>
NonNegative(r) == r.ok /\ r.val >= 0
\* a cost text that parses and is not negative ("nan" is such a text)
NotNegative(r) == r.ok /\ ~FloatLess(r.val, 0)
WellFormedFields(parts) ==
    Len(parts) = 5 /\ NotNegative(float(parts[4])) /\ NonNegative(int(parts[5]))
WellFormed(line) == WellFormedFields(Fields(line))
Malformed(line) == ~Blank(line) /\ ~WellFormed(line)
RecordOfFields(parts) ==
    [country |-> strip(parts[1]), code |-> strip(parts[2]), product |-> strip(parts[3]),
     cost |-> float(parts[4]).val, quantity |-> int(parts[5]).val]
RecordOf(line) == RecordOfFields(Fields(line))
HasHeader(f) == f.exists /\ f.lines # <<>>
WellFormedLines(f) == SelectSeq(Tail(f.lines), WellFormed)
MalformedLines(f) == SelectSeq(Tail(f.lines), Malformed)
RecordsOf(ls) == [i \in 1..Len(ls) |-> RecordOf(ls[i])]
ExpectedRecords(f) == IF HasHeader(f) THEN RecordsOf(WellFormedLines(f)) ELSE <<>>

\* C1: a restock that goes through picks a record at the minimum quantity of
\* the store as it was when the operation started, adds the non-negative
\* amount entered to that record's quantity, and leaves every other record,
\* the other fields of the picked record, and the length and order of the
\* sequence as they were.
C1_RestockLowest ==
    (Returned("re_stock") /\ path \in {"restocked", "save_failed"}) =>
        /\ shoes0 # <<>>
        /\ selected \in 1..Len(shoes0)
        /\ \A i \in 1..Len(shoes0) : shoes0[selected].quantity <= shoes0[i].quantity
        /\ added >= 0
        /\ Len(shoes_list) = Len(shoes0)
        /\ shoes_list[selected] =
               [shoes0[selected] EXCEPT !.quantity = shoes0[selected].quantity + added]
        /\ \A i \in 1..Len(shoes0) : i # selected => shoes_list[i] = shoes0[i]

\* a restock of a positive amount went through in a store of two records
\* with different quantities
C1_Witness ==
    /\ Returned("re_stock")
    /\ path = "restocked"
    /\ added > 0
    /\ Len(shoes0) >= 2
    /\ \E i \in 1..Len(shoes0) : shoes0[i].quantity > shoes0[selected].quantity
    /\ shoes_list[selected].quantity = shoes0[selected].quantity + added

\* C2: the valuation displays the records in an order that is non-increasing
\* by numeric value (cost x quantity).
C2_DisplayNonIncreasing ==
    (Returned("value_per_item") /\ path = "displayed") =>
        \A i \in 1..(Len(display) - 1) : FloatGeq(Value(display[i]), Value(display[i + 1]))

\* C3: loading a file with a header, N well-formed and M >= 1 malformed lines
\* in any interleaving yields exactly the N records of the well-formed lines,
\* in file order, and returns true iff N >= 1.
C3_LoadSkipsMalformed ==
    (Returned("read_shoes_data") /\ HasHeader(file0) /\ Len(MalformedLines(file0)) >= 1) =>
        /\ Len(shoes_list) = Len(WellFormedLines(file0))
        /\ shoes_list = ExpectedRecords(file0)
        /\ ret = Bool(Len(shoes_list) >= 1)

\* a load that met a malformed line before a well-formed one and kept the latter
C3_Witness ==
    /\ Returned("read_shoes_data")
    /\ HasHeader(file0)
    /\ \E i, j \in 2..Len(file0.lines) :
           i < j /\ Malformed(file0.lines[i]) /\ WellFormed(file0.lines[j])
    /\ shoes_list # <<>>
    /\ ret = "True"

\* C4: for a file made of a header and valid five-field lines, load, then
\* save, then load again yields the record sequence of the first load.
AllValid(f) == HasHeader(f) /\ \A i \in 2..Len(f.lines) : WellFormed(f.lines[i])
RoundTripAt(i) ==
    /\ hist[i].call = "load"
    /\ hist[i + 1].call = "save"
    /\ hist[i + 1].ret
    /\ hist[i + 2].call = "load"
    /\ AllValid(hist[i].file)
C4_RoundTrip ==
    \A i \in 1..(Len(hist) - 2) : RoundTripAt(i) => hist[i + 2].shoes = hist[i].shoes

\* a round trip of two records through a save that rewrote the numeric text
C4_Witness ==
    /\ Len(hist) >= 3
    /\ RoundTripAt(1)
    /\ Len(hist[1].shoes) = 2
    /\ hist[3].file # hist[1].file
    /\ hist[3].shoes = hist[1].shoes

\* C5: an add whose entered code equals, case-insensitively, the code of a
\* record of the store is rejected at the code prompt: it returns False, the
\* record sequence is as it was, and no save is made (neither file changes).
EnteredDuplicate(text) ==
    /\ strip(text) # <<>>
    /\ \E i \in 1..Len(shoes_list) : upper(shoes_list[i].code) = upper(strip(text))
C5_DuplicateRejected ==
    [][(pc = "cap_code" /\ EnteredDuplicate(entered')) =>
          /\ pc' = "menu"
          /\ ret' = "False"
          /\ shoes_list' = shoes_list
          /\ shoes_list' = shoes0
          /\ file' = file
          /\ backup' = backup
          /\ ~saved'.done]_vars

\* an add was rejected for a code that differs from a stored one by case only
C5_Witness ==
    /\ Returned("capture_shoes")
    /\ path = "duplicate"
    /\ ret = "False"
    /\ \E i \in 1..Len(shoes_list) :
           shoes_list[i].code # strip(entered) /\ upper(shoes_list[i].code) = upper(strip(entered))
    /\ shoes_list = shoes0
    /\ ~saved.done

\* C6: every abort or cancellation (restock on an empty inventory, the restock
\* cancel sentinel -1, a restock confirmation that is not "yes" once
\* lower-cased, an add given an empty country, code or product) returns False
\* and leaves the record sequence, the header and both files as they were when
\* the operation started, without any save.
AbortInput ==
    \/ pc = "menu" /\ op' = "re_stock" /\ shoes_list = <<>>
    \/ pc = "rs_index" /\ int(entered').ok /\ int(entered').val = 0 - 1
    \/ pc = "rs_choice" /\ lower(entered') # T_yes
    \/ pc \in {"cap_country", "cap_code", "cap_product"} /\ strip(entered') = <<>>
C6_AbortLeavesStore ==
    [][AbortInput =>
          /\ pc' = "menu"
          /\ ret' = "False"
          /\ shoes_list' = shoes_list
          /\ shoes_list' = shoes0'
          /\ header' = header
          /\ file' = file
          /\ file' = file0'
          /\ backup' = backup
          /\ backup' = backup0'
          /\ ~saved'.done]_vars

\* a restock of a store with two tied records was cancelled with -1
C6_Witness ==
    /\ Returned("re_stock")
    /\ path = "cancelled"
    /\ ret = "False"
    /\ int(entered) = Parsed(0 - 1)
    /\ Len(lowest) > 1
    /\ shoes_list = shoes0
    /\ file = file0
    /\ ~saved.done

\* C7 as stated: with several records tied at the minimum, an index outside
\* the range of the tied subset, or the cancel sentinel, aborts the operation
\* without mutating any record.
OutsideRange(idx) == idx.ok /\ ~(0 <= idx.val /\ idx.val < Len(lowest))
C7_OutOfRangeAborts ==
    [][(pc = "rs_index" /\ Len(lowest) > 1 /\ OutsideRange(int(entered'))) =>
          /\ pc' = "menu"
          /\ ret' = "False"
          /\ shoes_list' = shoes_list]_vars

\* C7 as amended: with several records tied at the minimum, the cancel
\* sentinel -1 aborts the operation (returns False) and any other index
\* outside the range of the tied subset is asked for again, the operation
\* still running; neither mutates a record or writes a file.
C7_OutOfRangeAsksAgain ==
    [][(pc = "rs_index" /\ Len(lowest) > 1 /\ OutsideRange(int(entered'))) =>
          /\ shoes_list' = shoes_list
          /\ file' = file
          /\ backup' = backup
          /\ IF int(entered').val = 0 - 1
             THEN pc' = "menu" /\ ret' = "False"
             ELSE pc' = "rs_index" /\ ret' = "running" /\ selected' = 0]_vars

\* the index prompt is up again after an index past the tied subset was typed
C7_Witness ==
    /\ pc = "rs_index"
    /\ op = "re_stock"
    /\ Len(lowest) > 1
    /\ OutsideRange(int(entered))
    /\ int(entered).val >= Len(lowest)
    /\ ret = "running"
    /\ shoes_list = shoes0

\* C8: after every load, whatever the store held and whether the load returns
\* True or False (missing file, empty file, no valid line), the record
\* sequence is exactly the records of the well-formed lines of the file as it
\* was at the call (none when the file is missing or empty): nothing held
\* before survives.
C8_LoadReplaces ==
    Returned("read_shoes_data") =>
        /\ shoes_list = ExpectedRecords(file0)
        /\ ret = Bool(shoes_list # <<>>)

\* a load that failed on a missing file emptied a store that held a record
C8_Witness ==
    /\ Returned("read_shoes_data")
    /\ path = "missing"
    /\ ret = "False"
    /\ shoes0 # <<>>
    /\ shoes_list = <<>>

\* C9: an add that got through every prompt appends the new record at the end
\* of the sequence and then calls save; its result is the result of the save,
\* and the record is in the sequence whether the save went through or not.
C9_AddAppendsThenSaves ==
    [][(pc = "cap_quantity" /\ NonNegative(int(entered'))) =>
          /\ pc' = "menu"
          /\ shoes_list' =
                 Append(shoes_list,
                        RecordOfFields(<<cap.country, cap.code, cap.product, cap.cost, entered'>>))
          /\ saved'.done
          /\ ret' = Bool(saved'.ret)
          /\ (saved'.wrio # "ok" => ret' = "False")]_vars

\* an add whose save failed: False returned, the record in the sequence
C9_Witness ==
    /\ Returned("capture_shoes")
    /\ path = "save_failed"
    /\ ret = "False"
    /\ saved.done
    /\ ~saved.ret
    /\ Len(shoes_list) = Len(shoes0) + 1
    /\ shoes_list[Len(shoes_list)].code = cap.code

\* C10 as stated: after every save that returns True while the primary file
\* existed beforehand, the backup file holds what the primary file held just
\* before that save.
C10_BackupAlwaysPreSave ==
    (saved.done /\ saved.ret /\ saved.existed) => backup = file0

\* C10 as amended: after every save that returns True while the primary file
\* existed beforehand and whose backup copy did not fail, the backup file
\* holds what the primary file held just before that save (the copy is made
\* before the rewrite); a failed copy leaves the backup as it was or empty and
\* the save goes on.
C10_BackupPreSaveUnlessCopyFailed ==
    (saved.done /\ saved.ret /\ saved.existed) =>
        IF saved.bkio = "ok" THEN backup = file0 ELSE backup \in {backup0, FileOf(<<>>)}

\* a save rewrote an existing primary file and the backup holds its old content
C10_Witness ==
    /\ saved.done
    /\ saved.ret
    /\ saved.existed
    /\ saved.bkio = "ok"
    /\ backup = file0
    /\ backup # backup0
    /\ file # file0


\* C11: in every reachable state every record of the store has cost >= 0 and
\* quantity >= 0, whatever was loaded, added or restocked before.
C11_NonNegativeRecords ==
    \A i \in 1..Len(shoes_list) :
        FloatGeq(shoes_list[i].cost, 0) /\ shoes_list[i].quantity >= 0

\* C12: on a store that is not empty, highest_qty returns a record of the
\* store whose quantity is at least the quantity of every record, and among
\* the records of that quantity the one at the earliest position; the store
\* is left as it was.
C12_HighestIsFirstMax ==
    (Returned("highest_qty") /\ shoes0 # <<>>) =>
        /\ ret = "Shoe"
        /\ highest \in 1..Len(shoes_list)
        /\ \A i \in 1..Len(shoes_list) :
               shoes_list[highest].quantity >= shoes_list[i].quantity
        /\ \A i \in 1..(highest - 1) :
               shoes_list[i].quantity < shoes_list[highest].quantity
        /\ shoes_list = shoes0

\* highest_qty returned the first of two records that share the greatest
\* quantity
C12_Witness ==
    /\ Returned("highest_qty")
    /\ highest = 1
    /\ \E i \in 2..Len(shoes_list) : shoes_list[i].quantity = shoes_list[1].quantity
    /\ \A i \in 1..Len(shoes_list) : shoes_list[i].quantity <= shoes_list[1].quantity

\* C13 as claimed: when the save of a restock fails, re_stock returns False,
\* the record picked holds its prior quantity plus the amount added, and the
\* primary file is still what it was before the operation.
C13_FailedSaveKeepsOldFile ==
    (Returned("re_stock") /\ path = "save_failed") =>
        /\ ret = "False"
        /\ shoes_list[selected].quantity = shoes0[selected].quantity + added
        /\ file = file0

\* C13: when the save of a restock fails, re_stock returns False while the
\* record picked already holds its prior quantity plus the amount added (the
\* update is made before the save and is not taken back); the primary file
\* does not hold the new quantity: it is what it was before the operation
\* when the file could not be opened, and empty when the write failed after
\* the open had truncated it.
C13_FailedSaveKeepsMutation ==
    (Returned("re_stock") /\ path = "save_failed") =>
        /\ ret = "False"
        /\ saved.done /\ ~saved.ret
        /\ shoes_list[selected].quantity = shoes0[selected].quantity + added
        /\ added > 0 => shoes_list # shoes0
        /\ saved.wrio = "open_fail" => file = file0
        /\ saved.wrio = "write_fail" => file = FileOf(<<>>)

\* a restock of a positive amount returned False because the write failed
\* after the open: the store is changed and the primary file is empty
C13_Witness ==
    /\ Returned("re_stock")
    /\ path = "save_failed"
    /\ ret = "False"
    /\ added > 0
    /\ shoes_list[selected].quantity = shoes0[selected].quantity + added
    /\ shoes_list # shoes0
    /\ saved.wrio = "write_fail"
    /\ file0.lines # <<>>
    /\ file = FileOf(<<>>)

\* the primary file is the header line and then one line per record, in order
HeaderThenRecords ==
    /\ file.exists
    /\ Len(file.lines) = 1 + Len(shoes_list)
    /\ file.lines[1] = header
    /\ \A i \in 1..Len(shoes_list) : file.lines[i + 1] = ShoeLine(shoes_list[i])
\* an add or a restock has just saved the store
SavedByOperation ==
    /\ pc = "menu"
    /\ op \in {"capture_shoes", "re_stock"}
    /\ saved.done /\ saved.ret
\* the primary file still held every line the last load skipped when the
\* operation started: no save has rewritten or truncated it since that load
StillLoadedFile == \A i \in 1..Len(skipped) : skipped[i] \in Range(file0.lines)

\* C14 as claimed: after a load and the first successful save since, the
\* primary file is the header line and one line per record, no line the load
\* skipped is in it, and every such line is still in the backup file.
C14_SkippedLinesInBackup ==
    (SavedByOperation /\ StillLoadedFile) =>
        /\ HeaderThenRecords
        /\ \A i \in 1..Len(skipped) :
               skipped[i] \notin Range(file.lines) /\ skipped[i] \in Range(backup.lines)

\* C14: after a load followed by a successful save made by add or restock,
\* the primary file is the header line and then one line per record of the
\* store, in order, and no line the load skipped is in it. When the backup
\* copy of that save did not fail, such a line is in the backup file exactly
\* if the primary file still held it when the save began; when the copy
\* failed, the line is in the backup file only if it was there before.
C14_SaveDropsSkippedLines ==
    SavedByOperation =>
        /\ HeaderThenRecords
        /\ \A i \in 1..Len(skipped) :
               /\ skipped[i] \notin Range(file.lines)
               /\ saved.bkio = "ok" =>
                      (skipped[i] \in Range(backup.lines) <=> skipped[i] \in Range(file0.lines))
               /\ saved.bkio # "ok" =>
                      (skipped[i] \in Range(backup.lines) => skipped[i] \in Range(backup0.lines))

\* the first save after the load of a file with a skipped line went through:
\* the line is in the backup file and not in the primary file
C14_Witness ==
    /\ SavedByOperation
    /\ saved.bkio = "ok"
    /\ skipped # <<>>
    /\ StillLoadedFile
    /\ HeaderThenRecords
    /\ \A i \in 1..Len(skipped) :
           skipped[i] \in Range(backup.lines) /\ skipped[i] \notin Range(file.lines)

\* two saves went through after the load of a file with a skipped line: the
\* line is in neither file
C14_WitnessLost ==
    /\ SavedByOperation
    /\ faults = 0
    /\ skipped # <<>>
    /\ \A i \in 1..Len(skipped) :
           skipped[i] \notin Range(backup.lines) /\ skipped[i] \notin Range(file.lines)
====
